---- MODULE Spec2Model ----
\* Leaderboard simulation of the GameOverlay component
\* (src/components/BounceRunner/GameOverlay.tsx): entry generation, the seed
\* effect, the 3-second interval tick, the visible window, the rank and the
\* milestone lookups.
EXTENDS Integers, Sequences, FiniteSets, TLC

VARIABLES status, score, highScore, leaderboard, leaderboardRef,
          visibleStartIndex, queue, alternateLanes, interval, mounted,
          effectDeps, timerAge, phaseAge, lastOp, ticksInRun, startOfRun,
          indexAtCall, pf

\* status, score, highScore: the props; leaderboard, visibleStartIndex: the
\* component state as of the last render; queue: the state updates
\* (setLeaderboard, setVisibleStartIndex) called since, which the next render
\* applies; alternateLanes: the last render applied a state update, whose
\* lanes React leaves on the component's alternate fiber until the next
\* render; leaderboardRef: the ref the ticks write; interval: the
\* timer the interval effect armed and the score its closure captured;
\* mounted: the component has not been torn down; effectDeps: the props of
\* the render whose effects ran last (the effects of the current render are
\* still to run while the props differ from it); timerAge: the time since
\* the timer was armed or last fired; phaseAge: the time since the phase was
\* entered (time passes under SpecTime only).
\* History variables: lastOp, the last operation; ticksInRun, the ticks since
\* the phase was entered; startOfRun, visibleStartIndex at that moment;
\* indexAtCall, the start index as the updaters of the callbacks since the
\* last render give it when each is evaluated at its call; pf, the input and
\* output of a store or window operation applied on its own.
vars == <<status, score, highScore, leaderboard, leaderboardRef,
          visibleStartIndex, queue, alternateLanes, interval, mounted,
          effectDeps, timerAge, phaseAge, lastOp, ticksInRun, startOfRun,
          indexAtCall, pf>>

\* ---------------------------------------------------------------- bounds

\* Math.random() returns k / RDen for k in 0 .. RDen-1.
RDen == 64
\* Number of names in FICTIONAL_USERNAMES.
PoolSize == 16
\* Ticks followed within one run of the PLAYING phase, under Spec.
MainTicks == 2
\* Ticks followed within one run of the PLAYING phase, under SpecRotate.
MaxTicks == 13
\* Largest prior store size fed to the live insert on its own.
MaxPrior == 17
\* Live inserts applied one after the other to one store.
MaxChain == 2
\* Time followed within one phase, under SpecTime, in milliseconds.
MaxAge == 9000
\* Callbacks whose setVisibleStartIndex waits for a render, at most.
MaxPending == 2

\* ------------------------------------------------------ program constants

\* for (let i = 0; i < 15; i++)
BatchSize == 15
\* leaderboardRef.current.slice(0, 14)
KeepPrior == 14
\* setInterval(..., 3000)
TickPeriod == 3000

\* Player scores and high scores the session controller supplies.
Scores == {0, 600, 2500}
HighScores == {0, 400, 2500}

MENU == "MENU"
PLAYING == "PLAYING"
GAME_OVER == "GAME_OVER"

YOU == "YOU"

\* ------------------------------------------------------------- utilities

Max(a, b) == IF a >= b THEN a ELSE b
Min(a, b) == IF a <= b THEN a ELSE b

\* Array.prototype.slice(from, to) for 0 <= from, 0 <= to.
Slice(arr, from, to) ==
  LET hi == Min(to, Len(arr))
  IN  IF from >= hi THEN << >> ELSE [i \in 1..(hi - from) |-> arr[from + i]]

\* Position at which e goes into the descending sequence s so that it follows
\* every element whose score is not smaller (the sort is stable).
RECURSIVE InsertDesc(_, _)
InsertDesc(s, e) ==
  IF s = << >> THEN <<e>>
  ELSE IF Head(s).score >= e.score THEN <<Head(s)>> \o InsertDesc(Tail(s), e)
  ELSE <<e>> \o s

RECURSIVE SortFrom(_, _)
SortFrom(done, rest) ==
  IF rest = << >> THEN done
  ELSE SortFrom(InsertDesc(done, Head(rest)), Tail(rest))

\* arr.sort((a, b) => b.score - a.score)
SortDesc(arr) == SortFrom(<< >>, arr)

\* ------------------------------------------------------------ Math.random

\* A random source is the sequence of numerators Math.random() returns, read
\* cyclically from position pos.
Source(cyc) == [cyc |-> cyc, pos |-> 1]
Draw(r) == r.cyc[r.pos]
Advance(r) == [r EXCEPT !.pos = (r.pos % Len(r.cyc)) + 1]

\* Math.floor(Math.random() * n) for the draw k / RDen
FloorTimes(k, n) == (k * n) \div RDen

\* ------------------------------------------------------------- constants

\* FICTIONAL_USERNAMES (constants module): PoolSize distinct display names,
\* none of them the reserved 'YOU'.
FICTIONAL_USERNAMES == [i \in 1..PoolSize |-> "user" \o ToString(i)]

\* THEMES (constants module): unlock tiers, ascending by unlockScore.
THEMES ==
  << [id |-> "t0", unlockScore |-> 0],
     [id |-> "t1", unlockScore |-> 500],
     [id |-> "t2", unlockScore |-> 2000] >>

\* ------------------------------------------------ generateLeaderboardEntries

\* FICTIONAL_USERNAMES[Math.floor(Math.random() * FICTIONAL_USERNAMES.length)]
RandomName(r) == FICTIONAL_USERNAMES[FloorTimes(Draw(r), Len(FICTIONAL_USERNAMES)) + 1]

\* The selection without the retry loop: the first draw is taken.
PickNameNoRetry(usedNames, r) == [username |-> RandomName(r), r |-> Advance(r)]

\* The name-selection loop: draw until the name is not in usedNames. The result
\* is the name and the source after the draws.
RECURSIVE PickName(_, _)
PickName(usedNames, r) ==
  IF RandomName(r) \in usedNames
  THEN PickName(usedNames, Advance(r))
  ELSE [username |-> RandomName(r), r |-> Advance(r)]

\* const baseScore = playerScore > 100 ? playerScore : 500
BaseScore(playerScore) == IF playerScore > 100 THEN playerScore ELSE 500

\* Math.floor(baseScore + (Math.random() - 0.3) * baseScore * 0.8) for the
\* draw k / RDen, i.e. floor(baseScore * (19 RDen + 20 k) / (25 RDen)).
RandomScore(playerScore, k) ==
  (BaseScore(playerScore) * (19 * RDen + 20 * k)) \div (25 * RDen)

\* Math.random() > 0.7 for the draw k / RDen
IsNewDraw(k) == 10 * k > 7 * RDen

\* One iteration of the for loop: name, score, isNew, in this order of draws.
GenEntry(playerScore, usedNames, r) ==
  LET pick == PickName(usedNames, r)
      r2 == pick.r
      r3 == Advance(r2)
  IN  [entry |-> [username |-> pick.username,
                  score |-> Max(50, RandomScore(playerScore, Draw(r2))),
                  isNew |-> IsNewDraw(Draw(r3))],
       r |-> Advance(r3)]

RECURSIVE GenLoop(_, _, _, _, _)
GenLoop(i, entries, usedNames, playerScore, r) ==
  IF i >= BatchSize THEN entries
  ELSE LET g == GenEntry(playerScore, usedNames, r)
       IN  GenLoop(i + 1, Append(entries, g.entry),
                   usedNames \cup {g.entry.username}, playerScore, g.r)

generateLeaderboardEntries(playerScore, r) ==
  SortDesc(GenLoop(0, << >>, {}, playerScore, r))

\* ------------------------------------------------------------ seed effect

\* The merge without the sort: the player's entry stays last.
MergePlayerUnsorted(entries, sc) ==
  Append(entries, [username |-> YOU, score |-> sc, isNew |-> TRUE])

\* The merge that puts the player's entry first before the sort.
MergePlayerFirst(entries, sc) ==
  SortDesc(<<[username |-> YOU, score |-> sc, isNew |-> TRUE]>> \o entries)

\* The GAME_OVER branch: generate from the best score, push the player's
\* entry, sort.
MergePlayer(entries, sc) ==
  SortDesc(Append(entries, [username |-> YOU, score |-> sc, isNew |-> TRUE]))

\* The seed effect generating from the player's score in both branches.
SeedEffectFromScore(st, sc, hs, cur, r) ==
  IF st = PLAYING THEN generateLeaderboardEntries(sc, r)
  ELSE IF st = GAME_OVER
       THEN SortDesc(Append(generateLeaderboardEntries(sc, r),
                            [username |-> YOU, score |-> sc, isNew |-> TRUE]))
       ELSE cur

\* useEffect(..., [status, score, highScore]): the snapshot the effect stores
\* in leaderboardRef.current and publishes with setLeaderboard; cur when the
\* status is neither PLAYING nor GAME_OVER.
SeedEffect(st, sc, hs, cur, r) ==
  IF st = PLAYING THEN generateLeaderboardEntries(sc, r)
  ELSE IF st = GAME_OVER
       THEN MergePlayer(generateLeaderboardEntries(Max(sc, hs), r), sc)
       ELSE cur

\* ---------------------------------------------------------- interval tick

\* Math.random() > 0.5 for the draw k / RDen
InsertDraw(k) == 2 * k > RDen

\* Math.max(50, Math.floor(score * (0.5 + Math.random()))) for the draw k / RDen
LiveScore(sc, k) == Max(50, (sc * (RDen + 2 * k)) \div (2 * RDen))

\* The entry a tick synthesizes from the score its closure captured: the name
\* draw, then the score draw.
LiveEntry(sc, r) ==
  [username |-> RandomName(r), score |-> LiveScore(sc, Draw(Advance(r))),
   isNew |-> TRUE]

\* The live insert without the sort.
InsertLiveUnsorted(cur, newEntry) == <<newEntry>> \o Slice(cur, 0, KeepPrior)

\* The live insert keeping 15 prior entries.
InsertLiveKeepOneMore(cur, newEntry) ==
  SortDesc(<<newEntry>> \o Slice(cur, 0, KeepPrior + 1))

\* The live insert that sorts first and then drops the lowest entries.
InsertLiveEvictLowest(cur, newEntry) ==
  Slice(SortDesc(<<newEntry>> \o cur), 0, KeepPrior + 1)

\* [newEntry, ...leaderboardRef.current.slice(0, 14)].sort(...)
InsertLive(cur, newEntry) == SortDesc(<<newEntry>> \o Slice(cur, 0, KeepPrior))

\* The store after one tick whose first draw is Draw(r).
TickStore(cur, sc, r) ==
  IF InsertDraw(Draw(r)) THEN InsertLive(cur, LiveEntry(sc, Advance(r))) ELSE cur

\* The advance modulo the full store length.
NextStartIndexFullLength(prev, cur) == (prev + 1) % Max(1, Len(cur))

\* prev => (prev + 1) % Math.max(1, leaderboardRef.current.length - 3)
NextStartIndex(prev, cur) == (prev + 1) % Max(1, Len(cur) - 3)

\* setLeaderboard(value)
SetLeaderboard(value) == [hook |-> "leaderboard", value |-> value]

\* setVisibleStartIndex(prev => ...) whose updater React already evaluated
\* when it was called, to value.
IndexEager(value) == [hook |-> "index", eager |-> TRUE, value |-> value]

\* setVisibleStartIndex(prev => ...) whose updater runs at the next render.
IndexDeferred == [hook |-> "index", eager |-> FALSE, value |-> 0]

\* The callback's call of setVisibleStartIndex (line 113) on the queue q, the
\* state idx and the ref store: when neither fiber of the component has
\* pending lanes (no update is queued and the last render applied none)
\* React evaluates the updater at once and drops an update that leaves the
\* state as it is; otherwise the updater is queued and runs at the next
\* render.
QueueIndexUpdate(q, idx, store, lanes) ==
  IF q = << >> /\ ~lanes
  THEN IF NextStartIndex(idx, store) = idx THEN q
       ELSE Append(q, IndexEager(NextStartIndex(idx, store)))
  ELSE Append(q, IndexDeferred)

\* The callback's updates without setLeaderboard.
TickUpdatesNoPublish(q, inserted, store, idx, lanes) ==
  QueueIndexUpdate(q, idx, store, lanes)

\* The state updates of one callback, in the order of its calls:
\* setLeaderboard([...leaderboardRef.current]) when it inserted (line 109),
\* then setVisibleStartIndex (line 113).
TickUpdates(q, inserted, store, idx, lanes) ==
  QueueIndexUpdate(IF inserted THEN Append(q, SetLeaderboard(store)) ELSE q,
                   idx, store, lanes)

\* useState at a render: the leaderboard state after the queued updates.
RECURSIVE RenderLeaderboard(_, _)
RenderLeaderboard(lb, q) ==
  IF q = << >> THEN lb
  ELSE RenderLeaderboard(IF Head(q).hook = "leaderboard" THEN Head(q).value
                         ELSE lb, Tail(q))

\* useState at a render: the start index after the queued updates; a deferred
\* updater reads leaderboardRef.current as it is at the render.
RECURSIVE RenderIndex(_, _, _)
RenderIndex(idx, q, store) ==
  IF q = << >> THEN idx
  ELSE RenderIndex(IF Head(q).hook # "index" THEN idx
                   ELSE IF Head(q).eager THEN Head(q).value
                   ELSE NextStartIndex(idx, store), Tail(q), store)

\* ----------------------------------------------------------------- render

\* The PLAYING window wrapping around the end of the snapshot.
VisibleLeaderboardWrap(st, lb, start) ==
  IF st = PLAYING
  THEN [i \in 1..Min(4, Len(lb)) |-> lb[((start + i - 1) % Len(lb)) + 1]]
  ELSE Slice(lb, 0, 10)

\* The window of 4 taken in every status.
VisibleLeaderboardWindowOnly(st, lb, start) == Slice(lb, start, start + 4)

\* visibleLeaderboard
VisibleLeaderboard(st, lb, start) ==
  IF st = PLAYING THEN Slice(lb, start, start + 4) ELSE Slice(lb, 0, 10)

\* Array.prototype.findIndex: the 0-based index of the first element with
\* the username, -1 when there is none.
RECURSIVE FindIndexFrom(_, _, _)
FindIndexFrom(lb, name, i) ==
  IF i > Len(lb) THEN -1
  ELSE IF lb[i].username = name THEN i - 1
  ELSE FindIndexFrom(lb, name, i + 1)

\* The rank without the + 1.
PlayerRankZeroBased(lb) == FindIndexFrom(lb, YOU, 1)

\* leaderboard.findIndex(entry => entry.username === 'YOU') + 1
PlayerRank(lb) == FindIndexFrom(lb, YOU, 1) + 1

\* {playerRank > 0 && (...)}: the rank display is rendered.
RankDisplayed(rank) == rank > 0

None == [id |-> "none", unlockScore |-> -1]

\* getNextMilestone: the loop over THEMES from index i.
RECURSIVE NextMilestoneFrom(_, _, _)
NextMilestoneFrom(i, sc, hs) ==
  IF i > Len(THEMES) THEN [theme |-> None, remaining |-> 0]
  ELSE IF Max(sc, hs) < THEMES[i].unlockScore
       THEN [theme |-> THEMES[i], remaining |-> THEMES[i].unlockScore - Max(sc, hs)]
       ELSE NextMilestoneFrom(i + 1, sc, hs)

\* The lookup from the current score alone.
getNextMilestoneScoreOnly(sc, hs) == NextMilestoneFrom(1, sc, sc)

getNextMilestone(sc, hs) == NextMilestoneFrom(1, sc, hs)

\* THEMES.find(t => score >= t.unlockScore && highScore < t.unlockScore)
RECURSIVE NewUnlockFrom(_, _, _)
NewUnlockFrom(i, sc, hs) ==
  IF i > Len(THEMES) THEN None
  ELSE IF sc >= THEMES[i].unlockScore /\ hs < THEMES[i].unlockScore
       THEN THEMES[i]
       ELSE NewUnlockFrom(i + 1, sc, hs)

\* The lookup returning the last matching tier.
RECURSIVE NewUnlockLastFrom(_, _, _)
NewUnlockLastFrom(i, sc, hs) ==
  IF i < 1 THEN None
  ELSE IF sc >= THEMES[i].unlockScore /\ hs < THEMES[i].unlockScore
       THEN THEMES[i]
       ELSE NewUnlockLastFrom(i - 1, sc, hs)

newUnlockLast(sc, hs) == NewUnlockLastFrom(Len(THEMES), sc, hs)

newUnlock(sc, hs) == NewUnlockFrom(1, sc, hs)

\* ------------------------------------------------- random sources supplied

\* The smallest numerator whose name index is idx (0-based).
NameNumerator(idx) ==
  (idx * RDen + Len(FICTIONAL_USERNAMES) - 1) \div Len(FICTIONAL_USERNAMES)

\* Score numerators of the patterned sources, for the i-th entry (0-based).
ScoreNumerator(pattern, i) ==
  CASE pattern = "low" -> 0
    [] pattern = "mid" -> (3 * RDen) \div 10 + i - BatchSize \div 2
    [] OTHER -> (i * (RDen - 1)) \div (BatchSize - 1)

\* A source without a repeated name: entry i draws name (off + i), its score
\* by the pattern, and isNew for every third entry.
PatternSource(pattern, off) ==
  Source([j \in 1..(3 * BatchSize) |->
            LET i == (j - 1) \div 3
            IN  CASE (j - 1) % 3 = 0 ->
                       NameNumerator((off + i) % Len(FICTIONAL_USERNAMES))
                  [] (j - 1) % 3 = 1 -> ScoreNumerator(pattern, i)
                  [] OTHER -> IF i % 3 = 0 THEN RDen - 1 ELSE 0])

\* A source that runs through every numerator with a fixed stride, so that
\* name draws repeat and the selection loop retries.
StrideSource(seed, stride) ==
  Source([j \in 1..RDen |-> (seed + (j - 1) * stride) % RDen])

GenSources ==
  { PatternSource(p, 0) : p \in {"low", "ramp"} }
    \cup { StrideSource(5, 7) }

\* The three draws of a tick: insert or not, the name, the score.
TickSources ==
  { Source(<<0, 0, 0>>), Source(<<RDen - 1, 0, 0>>),
    Source(<<RDen - 1, RDen - 1, RDen - 1>>) }

\* The ticks of the main specification: no insert, or an insert with the
\* highest draws.
MainTickSources ==
  { Source(<<0, 0, 0>>), Source(<<RDen - 1, RDen - 1, RDen - 1>>) }

\* ---------------------------------------------------------- state machine

\* No timer: handles counts the timers armed in the runtime.
NoInterval == [armed |-> FALSE, score |-> 0, handles |-> 0]

\* return () => clearInterval(interval): the cleanup cancels the handle the
\* effect run created, if it created one.
ClearInterval(iv) ==
  IF iv.armed THEN [armed |-> FALSE, score |-> 0, handles |-> iv.handles - 1]
  ELSE iv

\* setInterval(..., 3000): a new handle whose callback closes over score.
SetInterval(iv, sc) ==
  [armed |-> TRUE, score |-> sc, handles |-> iv.handles + 1]

\* The props of the current render.
Props == [status |-> status, score |-> score, highScore |-> highScore]

\* The current render's effects have not run yet.
EffectsPending == Props # effectDeps

\* The state after the mount in MENU, effects run.
Init ==
  /\ status = MENU
  /\ score = 0
  /\ highScore = 0
  /\ leaderboard = << >>
  /\ leaderboardRef = << >>
  /\ visibleStartIndex = 0
  /\ queue = << >>
  /\ alternateLanes = FALSE
  /\ interval = NoInterval
  /\ mounted = TRUE
  /\ effectDeps = [status |-> MENU, score |-> 0, highScore |-> 0]
  /\ timerAge = 0
  /\ phaseAge = 0
  /\ lastOp = "init"
  /\ ticksInRun = 0
  /\ startOfRun = 0
  /\ indexAtCall = 0
  /\ pf = [op |-> "none"]

\* The component function runs: the two useState hooks apply the queued
\* updates. React runs the effects of the previous render before it renders
\* again. The fiber that held the queued updates becomes the alternate and
\* keeps their lanes.
RenderState ==
  /\ mounted
  /\ ~EffectsPending
  /\ leaderboard' = RenderLeaderboard(leaderboard, queue)
  /\ visibleStartIndex' = RenderIndex(visibleStartIndex, queue, leaderboardRef)
  /\ queue' = << >>
  /\ alternateLanes' = (queue # << >>)
  /\ indexAtCall' = visibleStartIndex'
  /\ UNCHANGED <<leaderboardRef, interval, mounted, effectDeps, timerAge, pf>>

\* The parent renders the component with new props: the component function
\* runs with the state and the ref as they are and returns; its effects run
\* later.
Render(st, sc, hs) ==
  /\ <<st, sc, hs>> # <<status, score, highScore>>
  /\ status' = st
  /\ score' = sc
  /\ highScore' = hs
  /\ RenderState

\* The render React schedules for queued state updates, with the props as
\* they are.
Rerender ==
  /\ queue # << >>
  /\ RenderState
  /\ UNCHANGED <<status, score, highScore, phaseAge, lastOp, ticksInRun,
                 startOfRun>>

\* The parent renders the component with status, score and highScore as they
\* are (another prop changed: coins, combo, maxCombo, currentThemeId; the
\* component is not memoized) and nothing queued: no state changes, no effect
\* runs, and the lanes the last render left on the alternate fiber are
\* cleared.
ParentRender ==
  /\ queue = << >>
  /\ RenderState
  /\ UNCHANGED <<status, score, highScore, phaseAge, lastOp, ticksInRun,
                 startOfRun>>

\* onStart / onRestart: the session controller enters PLAYING.
Start(S) ==
  /\ status \in {MENU, GAME_OVER}
  /\ \E sc \in S : Render(PLAYING, sc, highScore)
  /\ lastOp' = "start"
  /\ ticksInRun' = 0
  /\ startOfRun' = visibleStartIndex'
  /\ phaseAge' = 0

\* The run ends: the session controller enters GAME_OVER.
EndGame ==
  /\ status = PLAYING
  /\ Render(GAME_OVER, score, highScore)
  /\ lastOp' = "endGame"
  /\ ticksInRun' = 0
  /\ startOfRun' = visibleStartIndex'
  /\ phaseAge' = 0

\* The session controller delivers a new player score.
ScoreUpdate(S) ==
  /\ \E sc \in S : Render(status, sc, highScore)
  /\ lastOp' = "score"
  /\ UNCHANGED <<ticksInRun, startOfRun, phaseAge>>

\* The session controller delivers a new high score.
HighScoreUpdate(H) ==
  /\ \E hs \in H : Render(status, score, hs)
  /\ lastOp' = "highScore"
  /\ UNCHANGED <<ticksInRun, startOfRun, phaseAge>>

\* The interval effect: the cleanup of its previous run, then the early
\* return or setInterval.
IntervalEffect(st, sc, iv) ==
  IF st = PLAYING THEN SetInterval(ClearInterval(iv), sc)
  ELSE ClearInterval(iv)

\* The interval effect depending on the status alone: the timer keeps
\* running, with the score it captured, when the score changes.
IntervalDepsChangedStatusOnly == status # effectDeps.status

\* [status, score] of the interval effect changed since its last run.
IntervalDepsChanged ==
  <<status, score>> # <<effectDeps.status, effectDeps.score>>

\* What the last effects run did, by the props that changed.
EffectsLabel ==
  IF status # effectDeps.status
  THEN IF status = PLAYING THEN "seedPlaying" ELSE "seedGameOver"
  ELSE IF score # effectDeps.score THEN "scoreUpdate" ELSE "highScoreUpdate"

\* The effects of the current render, run after it: the seed effect (deps
\* status, score, highScore), which stores the snapshot in the ref and calls
\* setLeaderboard, then the interval effect (deps status, score).
Effects(R) ==
  /\ mounted
  /\ EffectsPending
  /\ \E r \in R :
       /\ leaderboardRef' =
            SeedEffect(status, score, highScore, leaderboardRef, r)
       /\ queue' = IF status \in {PLAYING, GAME_OVER}
                   THEN Append(queue, SetLeaderboard(leaderboardRef'))
                   ELSE queue
  /\ interval' = IF IntervalDepsChanged
                 THEN IntervalEffect(status, score, interval)
                 ELSE interval
  /\ timerAge' = IF IntervalDepsChanged THEN 0 ELSE timerAge
  /\ effectDeps' = Props
  /\ lastOp' = EffectsLabel
  /\ UNCHANGED <<status, score, highScore, leaderboard, visibleStartIndex,
                 alternateLanes, mounted, phaseAge, ticksInRun, startOfRun,
                 indexAtCall, pf>>

\* The number of setVisibleStartIndex calls waiting for a render.
RECURSIVE IndexUpdates(_)
IndexUpdates(q) ==
  IF q = << >> THEN 0
  ELSE (IF Head(q).hook = "index" THEN 1 ELSE 0) + IndexUpdates(Tail(q))

\* The setInterval callback: it writes the ref and calls the setters, which
\* React ignores once the component is removed.
Tick(maxTicks, R) ==
  /\ interval.armed
  /\ ticksInRun < maxTicks
  /\ IndexUpdates(queue) < MaxPending
  /\ \E r \in R :
       /\ leaderboardRef' = TickStore(leaderboardRef, interval.score, r)
       /\ queue' = IF mounted
                   THEN TickUpdates(queue, InsertDraw(Draw(r)), leaderboardRef',
                                    visibleStartIndex, alternateLanes)
                   ELSE queue
       /\ lastOp' = IF InsertDraw(Draw(r)) THEN "tickInsert" ELSE "tick"
  /\ indexAtCall' = IF mounted
                    THEN NextStartIndex(indexAtCall, leaderboardRef')
                    ELSE indexAtCall
  /\ ticksInRun' = ticksInRun + 1
  /\ timerAge' = 0
  /\ UNCHANGED <<status, score, highScore, leaderboard, visibleStartIndex,
                 alternateLanes, interval, mounted, effectDeps, phaseAge,
                 startOfRun, pf>>

\* The parent removes the component, after the effects of its last render;
\* the state and its queued updates go with it. The cleanup of the interval
\* effect runs later.
Unmount ==
  /\ mounted
  /\ ~EffectsPending
  /\ mounted' = FALSE
  /\ queue' = << >>
  /\ alternateLanes' = FALSE
  /\ lastOp' = "unmount"
  /\ UNCHANGED <<status, score, highScore, leaderboard, leaderboardRef,
                 visibleStartIndex, interval, effectDeps, timerAge, phaseAge,
                 ticksInRun, startOfRun, indexAtCall, pf>>

\* The cleanup of the removed component's interval effect:
\* clearInterval(interval).
UnmountCleanup ==
  /\ ~mounted
  /\ interval.armed
  /\ interval' = ClearInterval(interval)
  /\ timerAge' = 0
  /\ lastOp' = "unmountCleanup"
  /\ UNCHANGED <<status, score, highScore, leaderboard, leaderboardRef,
                 visibleStartIndex, queue, alternateLanes, mounted, effectDeps,
                 phaseAge, ticksInRun, startOfRun, indexAtCall, pf>>

Next ==
  \/ Start(Scores)
  \/ EndGame
  \/ ScoreUpdate(Scores)
  \/ HighScoreUpdate(HighScores)
  \/ Effects(GenSources)
  \/ Rerender
  \/ ParentRender
  \/ Tick(MainTicks, MainTickSources)
  \/ Unmount
  \/ UnmountCleanup

Spec == Init /\ [][Next]_vars

\* Rotation of the window followed over MaxTicks ticks of a run, for two
\* player scores and one random source.
RotateScores == {400, 600}
RotateSources == { PatternSource("ramp", 0) }

NextRotate ==
  \/ Start(RotateScores)
  \/ EndGame
  \/ ScoreUpdate(RotateScores)
  \/ Effects(RotateSources)
  \/ Rerender
  \/ ParentRender
  \/ Tick(MaxTicks, TickSources)

SpecRotate == Init /\ [][NextRotate]_vars

\* --------------------------------------------------------- the timer in time

\* Amounts of time that pass between two events.
TimeSteps == {1000, 2000, 3000}

\* Time passes, but not beyond the moment the armed timer is due; the
\* effects of a render come before any time passes.
AdvanceTime ==
  /\ ~EffectsPending
  /\ \E dt \in TimeSteps :
       /\ phaseAge + dt <= MaxAge
       /\ interval.armed => timerAge + dt <= TickPeriod
       /\ phaseAge' = phaseAge + dt
       /\ timerAge' = IF interval.armed THEN timerAge + dt ELSE timerAge
  /\ UNCHANGED <<status, score, highScore, leaderboard, leaderboardRef,
                 visibleStartIndex, queue, alternateLanes, interval, mounted,
                 effectDeps, lastOp, ticksInRun, startOfRun, indexAtCall, pf>>

\* The setInterval callback, fired when the period has elapsed since the
\* timer was armed or last fired.
TimedTick ==
  /\ timerAge = TickPeriod
  /\ Tick(MaxTicks, TickSources)

NextTime ==
  \/ Start(RotateScores)
  \/ EndGame
  \/ ScoreUpdate(RotateScores)
  \/ Effects(RotateSources)
  \/ Rerender
  \/ ParentRender
  \/ AdvanceTime
  \/ TimedTick

SpecTime == Init /\ [][NextTime]_vars

\* ------------------------------------- the store and window operations alone

componentVars == <<status, score, highScore, leaderboard, leaderboardRef,
                   visibleStartIndex, queue, alternateLanes, interval, mounted,
                   effectDeps, timerAge, phaseAge, lastOp, ticksInRun,
                   startOfRun, indexAtCall>>

\* A descending store of n entries, scores step apart.
PriorStore(n, step) ==
  [i \in 1..n |->
     [username |-> FICTIONAL_USERNAMES[((i - 1) % Len(FICTIONAL_USERNAMES)) + 1],
      score |-> 50 + step * (n - i), isNew |-> FALSE]]

\* Stores as the generator returns them.
GeneratedStores == { generateLeaderboardEntries(600, r) : r \in GenSources }

PriorStores ==
  { PriorStore(n, step) : n \in 0..MaxPrior, step \in {0, 40} }
    \cup GeneratedStores

\* Live entries as a tick synthesizes them.
LiveEntries ==
  { LiveEntry(sc, r) : sc \in Scores,
                       r \in {Source(<<0, 0>>), Source(<<RDen - 1, RDen - 1>>)} }

\* One live insert into a store of any size.
ApplyInsertLive ==
  /\ pf.op = "none"
  /\ \E prior \in PriorStores, e \in LiveEntries :
       pf' = [op |-> "insertLive", prior |-> prior, entry |-> e,
              out |-> InsertLive(prior, e), chain |-> 1]
  /\ UNCHANGED componentVars

\* A further live insert into the store the previous one left.
ApplyInsertLiveAgain ==
  /\ pf.op = "insertLive"
  /\ pf.chain < MaxChain
  /\ \E e \in LiveEntries :
       pf' = [op |-> "insertLive", prior |-> pf.out, entry |-> e,
              out |-> InsertLive(pf.out, e), chain |-> pf.chain + 1]
  /\ UNCHANGED componentVars

\* The visible window of a store of any size at any start index.
ApplyWindow ==
  /\ pf.op = "none"
  /\ \E lb \in PriorStores, start \in 0..(MaxPrior + 1), st \in {PLAYING, GAME_OVER} :
       pf' = [op |-> "window", st |-> st, lb |-> lb, start |-> start,
              out |-> VisibleLeaderboard(st, lb, start)]
  /\ UNCHANGED componentVars

\* The rank lookup on a store without and with the player's entry.
ApplyRank ==
  /\ pf.op = "none"
  /\ \E lb \in PriorStores \cup
                { MergePlayer(p, sc) : p \in PriorStores, sc \in {0, 600} } :
       pf' = [op |-> "rank", lb |-> lb, rank |-> PlayerRank(lb),
              displayed |-> RankDisplayed(PlayerRank(lb))]
  /\ UNCHANGED componentVars

\* The seed effect entering GAME_OVER, and the rank of its snapshot.
ApplyGameOver ==
  /\ pf.op = "none"
  /\ \E sc \in Scores \cup {399, 400}, hs \in HighScores,
        r \in GenSources \cup {PatternSource("mid", 0)} :
       LET lb == SeedEffect(GAME_OVER, sc, hs, << >>, r)
       IN  pf' = [op |-> "gameOver", score |-> sc, highScore |-> hs,
                  lb |-> lb, rank |-> PlayerRank(lb)]
  /\ UNCHANGED componentVars

NextFn ==
  \/ ApplyGameOver
  \/ ApplyInsertLive
  \/ ApplyInsertLiveAgain
  \/ ApplyWindow
  \/ ApplyRank

SpecFn == Init /\ [][NextFn]_vars

\* ------------------------------------- the generator's loop, step by step

\* Name pools: the first n names of FICTIONAL_USERNAMES, for pools smaller
\* than a batch and for the whole pool.
GenPools ==
  { SubSeq(FICTIONAL_USERNAMES, 1, n) : n \in {3, BatchSize - 1, PoolSize} }

\* pool[Math.floor(Math.random() * pool.length)]
PoolName(pool, r) == pool[FloorTimes(Draw(r), Len(pool)) + 1]

\* A call of the generator begins: i = 0, no entries, no used names.
GenBegin ==
  /\ pf.op = "none"
  /\ \E pool \in GenPools, r \in GenSources, sc \in {0, 600} :
       pf' = [op |-> "generating", pc |-> "draw", pool |-> pool,
              playerScore |-> sc, i |-> 0, entries |-> << >>,
              usedNames |-> {}, username |-> "", r |-> r]
  /\ UNCHANGED componentVars

\* let username = FICTIONAL_USERNAMES[...]: the first draw of an iteration.
GenDraw ==
  /\ pf.op = "generating" /\ pf.pc = "draw"
  /\ pf' = [pf EXCEPT !.username = PoolName(pf.pool, pf.r),
                      !.r = Advance(pf.r), !.pc = "while"]
  /\ UNCHANGED componentVars

\* while (usedNames.has(username)): the body, another draw.
GenRetry ==
  /\ pf.op = "generating" /\ pf.pc = "while"
  /\ pf.username \in pf.usedNames
  /\ pf' = [pf EXCEPT !.username = PoolName(pf.pool, pf.r),
                      !.r = Advance(pf.r)]
  /\ UNCHANGED componentVars

\* The while loop is left: usedNames.add, the score and isNew draws,
\* entries.push, i++. g is the state of the call.
GenPushed(g) ==
  LET e == [username |-> g.username,
            score |-> Max(50, RandomScore(g.playerScore, Draw(g.r))),
            isNew |-> IsNewDraw(Draw(Advance(g.r)))]
  IN  [g EXCEPT !.usedNames = g.usedNames \cup {g.username},
                !.entries = Append(g.entries, e),
                !.i = g.i + 1,
                !.r = Advance(Advance(g.r)),
                !.pc = IF g.i + 1 >= BatchSize THEN "sort" ELSE "draw"]

GenPush ==
  /\ pf.op = "generating" /\ pf.pc = "while"
  /\ pf.username \notin pf.usedNames
  /\ pf' = GenPushed(pf)
  /\ UNCHANGED componentVars

\* return entries.sort((a, b) => b.score - a.score)
GenReturn ==
  /\ pf.op = "generating" /\ pf.pc = "sort"
  /\ pf' = [pf EXCEPT !.entries = SortDesc(pf.entries),
                      !.pc = "return", !.op = "generated"]
  /\ UNCHANGED componentVars

\* A step of the for loop and of the while loop in it.
GenLoopStep == GenDraw \/ GenRetry \/ GenPush

NextGen == GenBegin \/ GenLoopStep \/ GenReturn

\* The loop is a running computation: while it has a next step, it takes it.
SpecGen == Init /\ [][NextGen]_vars /\ WF_vars(GenLoopStep)

\* ------------------------------------------------------------ properties

Sorted(lb) == \A i \in 1..(Len(lb) - 1) : lb[i].score >= lb[i + 1].score

Synthetic(lb) == { i \in 1..Len(lb) : lb[i].username # YOU }

\* The states whose published state is the one on screen: the component is
\* in the tree and no state update waits for a render.
Committed == mounted /\ queue = << >>

\* C1: after every seed, merge and live insert the snapshot, both the copy
\* the ticks hold and the published one, is in non-increasing order of score.
C1_SortedDescending == Sorted(leaderboardRef) /\ Sorted(leaderboard)

C1_Witness ==
  /\ lastOp = "tickInsert"
  /\ queue = << >>
  /\ Len(leaderboard) = BatchSize
  /\ \E i \in 2..(BatchSize - 1) :
       /\ leaderboard[i].isNew
       /\ leaderboard[i - 1].score > leaderboard[i].score
       /\ leaderboard[i].score > leaderboard[i + 1].score

\* C2: every entry of every reachable snapshot has score >= 50, the player's
\* own entry merged on entry to GAME_OVER included.
C2_AllScoresAtLeast50 ==
  /\ \A i \in 1..Len(leaderboard) : leaderboard[i].score >= 50
  /\ \A i \in 1..Len(leaderboardRef) : leaderboardRef[i].score >= 50

\* C3: a live insert into a store of n entries leaves min(n + 1, 15) entries,
\* also when it follows another live insert.
C3_LiveInsertCap ==
  pf.op = "insertLive" =>
    /\ Len(pf.out) = Min(Len(pf.prior) + 1, BatchSize)
    /\ Len(pf.out) <= BatchSize

C3_Witness ==
  /\ pf.op = "insertLive"
  /\ pf.chain > 1
  /\ Len(pf.prior) = BatchSize
  /\ Len(pf.out) = BatchSize

\* The snapshot is what the generator returned: PLAYING, and no tick since
\* the seed effect ran.
AfterGenerate ==
  status = PLAYING /\ lastOp \in {"seedPlaying", "scoreUpdate", "highScoreUpdate"}

\* C4: one call of the generator returns exactly 15 entries with pairwise
\* distinct usernames, for every reference score.
C4_FifteenDistinctNames ==
  AfterGenerate =>
    /\ Len(leaderboardRef) = BatchSize
    /\ \A i, j \in 1..Len(leaderboardRef) :
         i # j => leaderboardRef[i].username # leaderboardRef[j].username

C4_Witness ==
  /\ AfterGenerate
  /\ Len(leaderboardRef) = BatchSize
  /\ Cardinality({ leaderboardRef[i].username : i \in 1..BatchSize }) = BatchSize
  /\ leaderboardRef[1].score > leaderboardRef[BatchSize].score

\* C5: once the seed effect has run in GAME_OVER the snapshot is 15 entries
\* generated from max(score, highScore) plus the player's entry: 16 entries,
\* exactly one of them 'YOU', with the player's score, for the score and the
\* high score the effect ran with.
C5_GameOverMerge ==
  (status = GAME_OVER /\ effectDeps.status = GAME_OVER /\ Committed) =>
    LET base == BaseScore(Max(effectDeps.score, effectDeps.highScore))
    IN  /\ Len(leaderboard) = BatchSize + 1
        /\ Cardinality({ i \in 1..Len(leaderboard) : leaderboard[i].username = YOU }) = 1
        /\ \A i \in 1..Len(leaderboard) :
             IF leaderboard[i].username = YOU
             THEN leaderboard[i].score = effectDeps.score
             ELSE /\ leaderboard[i].score >= (19 * base) \div 25
                  /\ leaderboard[i].score <= (39 * base) \div 25

C5_Witness ==
  /\ status = GAME_OVER
  /\ ~EffectsPending
  /\ queue = << >>
  /\ leaderboardRef = leaderboard
  /\ lastOp = "seedGameOver"
  /\ score > 100
  /\ highScore > score
  /\ Len(leaderboard) = BatchSize + 1
  /\ leaderboard[BatchSize + 1] = [username |-> YOU, score |-> score, isNew |-> TRUE]

\* C6: in GAME_OVER, on the merged snapshot, the rank is the 1-based position
\* of the first 'YOU' entry, and it is 1 when the player's score exceeds every
\* synthetic score of that snapshot.
C6_RankIsFirstPosition ==
  (status = GAME_OVER /\ effectDeps.status = GAME_OVER /\ Committed) =>
    LET rank == PlayerRank(leaderboard)
    IN  /\ rank \in 1..Len(leaderboard)
        /\ leaderboard[rank].username = YOU
        /\ \A j \in 1..(rank - 1) : leaderboard[j].username # YOU
        /\ (\A i \in Synthetic(leaderboard) :
              effectDeps.score > leaderboard[i].score) => rank = 1

C6_Witness ==
  /\ status = GAME_OVER
  /\ ~EffectsPending
  /\ queue = << >>
  /\ \A i \in Synthetic(leaderboard) : score > leaderboard[i].score
  /\ Cardinality(Synthetic(leaderboard)) = BatchSize
  /\ PlayerRank(leaderboard) = 1

\* C7: the PLAYING window is the slice [start, start + 4) of the snapshot
\* without wraparound, the GAME_OVER window its first 10 entries.
C7_Window ==
  pf.op = "window" =>
    LET n == Len(pf.lb)
    IN  /\ pf.st = PLAYING =>
             /\ Len(pf.out) = Max(0, Min(4, n - pf.start))
             /\ \A i \in 1..Len(pf.out) : pf.out[i] = pf.lb[pf.start + i]
        /\ pf.st = GAME_OVER =>
             /\ Len(pf.out) = Min(10, n)
             /\ \A i \in 1..Len(pf.out) : pf.out[i] = pf.lb[i]

C7_Witness ==
  /\ pf.op = "window"
  /\ pf.st = PLAYING
  /\ pf.start > 0
  /\ Len(pf.out) \in 1..3

\* C8: within a run of PLAYING, with N entries in the store, the start index
\* after t ticks is (start of run + t) mod max(1, N - 3): it is back at its
\* starting value after max(1, N - 3) ticks and not before. Read in the
\* states where the seed of the run and the updates of its ticks are
\* rendered.
C8_RotationPeriod ==
  (status = PLAYING /\ effectDeps.status = PLAYING /\ Committed) =>
    LET period == Max(1, Len(leaderboardRef) - 3)
    IN  /\ ticksInRun = 0 => visibleStartIndex = startOfRun
        /\ ticksInRun > 0 =>
             visibleStartIndex = (startOfRun + ticksInRun) % period
        /\ ticksInRun \in 1..(period - 1) => visibleStartIndex # startOfRun
        /\ ticksInRun = period => visibleStartIndex = startOfRun

\* The same rotation in the runs that start inside the range of the
\* modulus.
RotationFromInRange ==
  (status = PLAYING /\ effectDeps.status = PLAYING /\ Committed
     /\ startOfRun < Max(1, Len(leaderboardRef) - 3)) =>
    LET period == Max(1, Len(leaderboardRef) - 3)
    IN  /\ ticksInRun = 0 => visibleStartIndex = startOfRun
        /\ ticksInRun > 0 =>
             visibleStartIndex = (startOfRun + ticksInRun) % period
        /\ ticksInRun \in 1..(period - 1) => visibleStartIndex # startOfRun
        /\ ticksInRun = period => visibleStartIndex = startOfRun

\* C9: the next milestone is the first tier above best = max(score,
\* highScore), with remaining = unlockScore - best > 0; there is none exactly
\* when best reaches every tier.
C9_NextMilestone ==
  LET m == getNextMilestone(score, highScore)
      best == Max(score, highScore)
  IN  /\ m.theme = None <=> \A i \in 1..Len(THEMES) : best >= THEMES[i].unlockScore
      /\ m.theme # None =>
           \E i \in 1..Len(THEMES) :
             /\ m.theme = THEMES[i]
             /\ THEMES[i].unlockScore > best
             /\ \A j \in 1..(i - 1) : THEMES[j].unlockScore <= best
             /\ m.remaining = THEMES[i].unlockScore - best
             /\ m.remaining > 0

C9_Witness ==
  /\ status = GAME_OVER
  /\ score = 600
  /\ highScore = 400
  /\ getNextMilestone(score, highScore) = [theme |-> THEMES[3], remaining |-> 1400]

\* C10: in GAME_OVER a newly unlocked tier is reported exactly when some
\* tier's unlockScore is in (highScore, score], and it is the first such tier.
C10_NewUnlock ==
  status = GAME_OVER =>
    LET u == newUnlock(score, highScore)
        InInterval(t) == highScore < t.unlockScore /\ t.unlockScore <= score
    IN  /\ u # None <=> \E i \in 1..Len(THEMES) : InInterval(THEMES[i])
        /\ u # None =>
             \E i \in 1..Len(THEMES) :
               /\ u = THEMES[i]
               /\ InInterval(THEMES[i])
               /\ \A j \in 1..(i - 1) : ~InInterval(THEMES[j])

C10_Witness ==
  /\ status = GAME_OVER
  /\ score = 2500
  /\ highScore = 400
  /\ newUnlock(score, highScore) = THEMES[2]
  /\ highScore < THEMES[3].unlockScore /\ THEMES[3].unlockScore <= score

\* C11: a tick happens only while the status is PLAYING and the component is
\* mounted: the timer is cleared when the status leaves PLAYING, when the
\* score re-arms it, and on unmount.
C11_TicksOnlyWhilePlaying ==
  [][ticksInRun' = ticksInRun + 1 =>
       status = PLAYING /\ status' = PLAYING /\ mounted /\ mounted']_vars

\* C12: right after every transition into PLAYING the start index is 0.
C12_StartIndexZeroOnEntry ==
  (status = PLAYING /\ lastOp = "seedPlaying") => visibleStartIndex = 0

\* C13: within one phase the snapshot changes only through the live inserts
\* of ticks: once the snapshot of the phase is seeded, no step that is not a
\* tick changes it before the status changes.
C13_SnapshotStableWithinPhase ==
  [][(status' = status /\ effectDeps.status = status
        /\ ticksInRun' = ticksInRun) =>
       leaderboardRef' = leaderboardRef]_vars

\* C14: while the status stays PLAYING a tick fires every 3000 ms, whatever
\* score updates arrive: between ticks, the ticks of the phase number its age
\* divided by the period.
C14_FixedPeriod ==
  (status = PLAYING /\ timerAge < TickPeriod) =>
    ticksInRun = phaseAge \div TickPeriod

\* C15: a call of the generator leaves its loops for every name pool, also
\* one with fewer than 15 names: it never searches for an unused name
\* forever.
C15_GeneratorTerminates ==
  (pf.op = "generating") ~>
    (pf.op = "generated" \/ (pf.op = "generating" /\ pf.pc = "sort"))

\* C16: the rank lookup yields 0, and no rank display, on a snapshot without
\* the player's entry, and a value in 1..length otherwise.
C16_RankTotal ==
  pf.op = "rank" =>
    IF \E i \in 1..Len(pf.lb) : pf.lb[i].username = YOU
    THEN pf.rank \in 1..Len(pf.lb) /\ pf.displayed
    ELSE pf.rank = 0 /\ ~pf.displayed

C16_Witness ==
  /\ pf.op = "rank"
  /\ Len(pf.lb) = BatchSize
  /\ \A i \in 1..Len(pf.lb) : pf.lb[i].username # YOU
  /\ pf.rank = 0
  /\ ~pf.displayed

Range(seq) == { seq[i] : i \in 1..Len(seq) }

Count(seq, x) == Cardinality({ i \in 1..Len(seq) : seq[i] = x })

\* The two sequences hold the same entries, each as many times.
SameEntries(a, b) ==
  /\ Len(a) = Len(b)
  /\ \A x \in Range(a) \cup Range(b) : Count(a, x) = Count(b, x)

\* C18: after a live insert the store holds exactly the new entry and the
\* first 14 entries of the prior order; from a 15-entry store only the entry
\* that was last is gone.
C18_KeepsNewAndFirst14 ==
  pf.op = "insertLive" =>
    /\ pf.entry \in Range(pf.out)
    /\ SameEntries(pf.out, <<pf.entry>> \o Slice(pf.prior, 0, KeepPrior))
    /\ Len(pf.prior) = BatchSize =>
         SameEntries(Append(pf.out, pf.prior[BatchSize]),
                     <<pf.entry>> \o pf.prior)

C18_Witness ==
  /\ pf.op = "insertLive"
  /\ Len(pf.prior) = BatchSize
  /\ \A i \in 1..Len(pf.prior) : pf.entry.score < pf.prior[i].score
  /\ pf.out[BatchSize] = pf.entry
  /\ pf.prior[BatchSize] \notin Range(pf.out)

\* C19: every tick advances the start index exactly once, whether or not it
\* inserts: one setVisibleStartIndex per callback, and the index a render
\* publishes is the one the updaters give when each takes the modulus
\* max(1, N - 3) from the store as its own callback left it. A tick without
\* an insert leaves the store unchanged.
C19_TickAdvancesOnce ==
  [][/\ (ticksInRun' = ticksInRun + 1 /\ mounted) =>
          IndexUpdates(queue') = IndexUpdates(queue) + 1
     /\ (ticksInRun' = ticksInRun + 1 /\ lastOp' = "tick") =>
          leaderboardRef' = leaderboardRef
     /\ (mounted' /\ queue # << >> /\ queue' = << >>) =>
          visibleStartIndex' = indexAtCall]_vars

\* C20: the entry a tick inserts is live and has the score
\* max(50, floor(p * (0.5 + u))) for the player score p at the moment of the
\* tick and some draw u, between max(50, floor(0.5 p)) and
\* max(50, floor(1.5 p)).
C20_LiveEntryFromCurrentScore ==
  [][(ticksInRun' = ticksInRun + 1 /\ lastOp' = "tickInsert") =>
       \E i \in 1..Len(leaderboardRef') :
         LET e == leaderboardRef'[i]
         IN  /\ e.isNew
             /\ e.username \in Range(FICTIONAL_USERNAMES)
             /\ e.score \in { LiveScore(score, k) : k \in 0..(RDen - 1) }
             /\ e.score >= Max(50, score \div 2)
             /\ e.score <= Max(50, (3 * score) \div 2)
             /\ leaderboardRef' = InsertLive(leaderboardRef, e)]_vars

\* C21: after every completed seed, merge and tick the ref the ticks write
\* and the published state hold the same entry sequence.
C21_RefAndStateAgree ==
  (mounted /\ lastOp \in {"seedPlaying", "seedGameOver", "scoreUpdate",
                          "highScoreUpdate", "tickInsert", "tick"}) =>
    leaderboard = leaderboardRef

\* C21, amended: the ref and the published state hold the same entry sequence
\* whenever no state update waits for a render, and every render publishes
\* the ref's snapshot: the window and the rank are never computed from a
\* snapshot other than the store's.
C21_RendersPublishTheStore ==
  [][/\ (mounted' /\ queue' = << >>) => leaderboard' = leaderboardRef'
     /\ (leaderboard' # leaderboard \/ visibleStartIndex' # visibleStartIndex
           \/ Props' # Props) =>
          (/\ leaderboard' = leaderboardRef'
           /\ VisibleLeaderboard(status', leaderboard', visibleStartIndex')
                = VisibleLeaderboard(status', leaderboardRef', visibleStartIndex')
           /\ PlayerRank(leaderboard') = PlayerRank(leaderboardRef'))]_vars

C21_Witness ==
  /\ status = PLAYING
  /\ lastOp = "tickInsert"
  /\ ticksInRun = 2
  /\ queue = << >>
  /\ leaderboard = leaderboardRef
  /\ \E i \in 1..Len(leaderboard) :
       /\ leaderboard[i].isNew
       /\ leaderboard[i].score = LiveScore(score, RDen - 1)

\* At most one timer is armed at any moment; it is the one the last run of
\* the interval effect armed, in PLAYING.
AtMostOneTimer ==
  /\ interval.handles \in {0, 1}
  /\ interval.armed <=> interval.handles = 1
  /\ interval.armed =>
       (effectDeps.status = PLAYING /\ interval.score = effectDeps.score)

C23_PlayingWindowInBounds ==
  (status = PLAYING /\ effectDeps.status = PLAYING /\ Committed) =>
    /\ Len(leaderboardRef) = BatchSize
    /\ Len(leaderboard) = BatchSize
    /\ visibleStartIndex \in 0..(BatchSize - 4)
    /\ Len(VisibleLeaderboard(status, leaderboard, visibleStartIndex)) = 4

\* C24: at GAME_OVER the player's rank is 1 plus the number of synthetic
\* entries whose score is greater than or equal to the player's score: a
\* tie is resolved against the player.
C24_TiesAgainstPlayer ==
  pf.op = "gameOver" =>
    pf.rank = 1 + Cardinality({ i \in Synthetic(pf.lb) :
                                  pf.lb[i].score >= pf.score })

C24_Witness ==
  /\ pf.op = "gameOver"
  /\ \E i \in Synthetic(pf.lb) :
       /\ pf.lb[i].score = pf.score
       /\ i < pf.rank
  /\ \E i \in Synthetic(pf.lb) : pf.lb[i].score > pf.score

\* C25: at GAME_OVER the first 10 entries are displayed: the player's entry
\* is displayed exactly when the rank is at most 10, and then at the position
\* equal to the rank; once the seed effect of the entry has run the rank is
\* computed over a snapshot of 16 entries.
C25_DisplayedIffTopTen ==
  status = GAME_OVER =>
    LET vis == VisibleLeaderboard(status, leaderboard, visibleStartIndex)
        rank == PlayerRank(leaderboard)
    IN  /\ (effectDeps.status = GAME_OVER /\ Committed) =>
             Len(leaderboard) = BatchSize + 1
        /\ Len(vis) = 10
        /\ (\E i \in 1..Len(vis) : vis[i].username = YOU) <=> rank \in 1..10
        /\ \A i \in 1..Len(vis) : vis[i].username = YOU => i = rank

C25_Witness ==
  /\ status = GAME_OVER
  /\ effectDeps.status = GAME_OVER
  /\ queue = << >>
  /\ PlayerRank(leaderboard) = 11
  /\ \A i \in 1..10 :
       VisibleLeaderboard(status, leaderboard, visibleStartIndex)[i].username
         # YOU

\* With the whole pool the loop returns what generateLeaderboardEntries
\* computes.
GenAgrees ==
  (pf.op = "generated" /\ pf.pool = FICTIONAL_USERNAMES) =>
    \E r \in GenSources :
      pf.entries = generateLeaderboardEntries(pf.playerScore, r)

====
